---- MODULE Spec2Model ----
(***************************************************************************)
(* Civic-issue reporting app: App (auth and session), UserHome (report     *)
(* form, camera, geolocation, alerts) and AdminHome (triage dashboard),    *)
(* all sharing the browser's localStorage.                                  *)
(*                                                                         *)
(* localStorage belongs to the origin, so it is shared by every tab that   *)
(* has the app open; the React state of App, UserHome and AdminHome is per *)
(* tab.  Every piece of React state is therefore a function of the tab.    *)
(*                                                                         *)
(* Conventions                                                             *)
(*   - string ids ('1', Date.now().toString()) are modelled by the number  *)
(*     they print (toString is injective on integers);                     *)
(*   - ISO timestamps are modelled by their millisecond value;             *)
(*   - null is the record NULL, undefined is the value Undefined; an       *)
(*     optional field that is missing is a key missing from the record;    *)
(*   - the debug-only state of UserHome (videoMetrics, streamInfo,         *)
(*     lastCameraError, lastActionLog) is written but never read by any    *)
(*     handler and is left out.                                            *)
(***************************************************************************)
EXTENDS Integers, Sequences, FiniteSets, TLC

\* ------------------------------------------------------------------ bounds
\* Date.now() when the run starts (abstract epoch, in ms).
Clock0 == 1000000000
\* How many milliseconds the clock may advance during a run.
MaxTicks == 1
\* Length limit of the `users` array (2 demo users + registrations).
MaxUsers == 3
\* Length limit of the `reports` array (2 demo reports + submissions).
MaxReports == 3
\* Pending alert timers per tab.
MaxTimers == 2
\* Images attached to the form.
MaxImages == 1
\* getUserMedia / getCurrentPosition requests in flight per tab.
MaxPending == 2
\* Camera streams with live tracks per tab.
MaxStreams == 2
\* Reports submitted in earlier sessions that the store already holds.
MaxEarlier == 4
\* Length limit of the `reports` array where two tabs submit.
MaxReportsShared == 4

Tabs == {1, 2}

NULL == [null |-> TRUE]
Undefined == "undefined"

DayMs == 24 * 60 * 60 * 1000

VARIABLES
  localStorage,   \* key -> parsed JSON value; a missing key is getItem() = null
  now,            \* Date.now()
  mounted,        \* tab -> App's mount effect has run
  authState,      \* tab -> App.authState
  currentUser,    \* tab -> App.currentUser
  admin,          \* tab -> AdminHome's state
  home,           \* tab -> UserHome's state (default export)
  timers,         \* tab -> pending setTimeout(() => setAlert(null), 5000)
  gumPending,     \* tab -> getUserMedia promises not yet settled: those of the
                  \*        mounted UserHome and those of unmounted instances
  geoPending,     \* tab -> getCurrentPosition requests not yet answered
  liveStreams     \* tab -> MediaStreams whose tracks are live

vars == <<localStorage, now, mounted, authState, currentUser, admin, home,
          timers, gumPending, geoPending, liveStreams>>

\* ------------------------------------------------------------- JSON, storage
\* JSON.stringify drops the keys whose value is undefined.
OptionalKeys == {"assignedTo", "department", "comments"}

DropUndefined(r) ==
  [k \in {j \in DOMAIN r : ~(j \in OptionalKeys /\ r[j] = Undefined)} |-> r[k]]

\* JSON.stringify of an array of objects; the text is represented by the
\* value JSON.parse gives back for it.
JSONstringifyList(list) == [i \in 1..Len(list) |-> DropUndefined(list[i])]

JSONstringifyObject(obj) == DropUndefined(obj)

JSONparse(text) == text

getItem(ls, key) == IF key \in DOMAIN ls THEN ls[key] ELSE NULL

\* !localStorage.getItem(key): every value written is a non-empty JSON text.
hasItem(ls, key) == key \in DOMAIN ls

setItem(ls, key, text) ==
  [k \in DOMAIN ls \cup {key} |-> IF k = key THEN text ELSE ls[k]]

removeItemKeepsKey(ls, key) == ls

removeItemClearsAll(ls, key) == [k \in {} |-> NULL]

removeItem(ls, key) == [k \in DOMAIN ls \ {key} |-> ls[k]]

\* JSON.parse(localStorage.getItem(key) || '[]')
ParseListOrEmpty(ls, key) ==
  IF hasItem(ls, key) THEN JSONparse(getItem(ls, key)) ELSE <<>>

\* ------------------------------------------------------------------ demo data
demoUsersAdminOnly ==
  << [id |-> 2, email |-> "admin@demo.com", password |-> "admin123",
      name |-> "Admin User", isAdmin |-> TRUE] >>

demoUsers ==
  << [id |-> 1, email |-> "user@demo.com", password |-> "password123",
      name |-> "Demo User", isAdmin |-> FALSE],
     [id |-> 2, email |-> "admin@demo.com", password |-> "admin123",
      name |-> "Admin User", isAdmin |-> TRUE] >>

demoReports(clock) ==
  << [id |-> 1, userId |-> 1,
      title |-> "Large Pothole on Main Street",
      description |-> "Deep pothole causing damage to vehicles.",
      category |-> "pothole",
      imageUrl |-> "https://images.unsplash.com/photo-1709934730506",
      location |-> [latitude |-> 28, longitude |-> 77,
                    address |-> "Main Street, Near Traffic Signal",
                    village |-> "Central Delhi", district |-> "New Delhi",
                    pincode |-> "110001", state |-> "Delhi"],
      status |-> "pending",
      timestamp |-> clock - 2 * DayMs],
     [id |-> 2, userId |-> 1,
      title |-> "Streetlight Not Working",
      description |-> "Street light has been non-functional for over a week.",
      category |-> "streetlight",
      imageUrl |-> "https://images.unsplash.com/photo-1742119193536",
      location |-> [latitude |-> 28, longitude |-> 77,
                    address |-> "Park Road, Sector 5",
                    village |-> "Sector 5", district |-> "New Delhi",
                    pincode |-> "110001", state |-> "Delhi"],
      status |-> "in-progress",
      timestamp |-> clock - 1 * DayMs,
      assignedTo |-> "Admin User",
      department |-> "Public Works"] >>

\* ------------------------------------------------------------ component state
EmptyForm ==
  [title |-> "", description |-> "", category |-> "pothole", imageUrls |-> <<>>,
   address |-> "", village |-> "", district |-> "", pincode |-> "", state |-> ""]

\* UserHome's useState defaults; srcObject is videoRef.current.srcObject.
UserHomeInit ==
  [activeTab |-> "report", reports |-> <<>>, formData |-> EmptyForm,
   location |-> NULL, isUsingCamera |-> FALSE, alert |-> NULL,
   cameraStream |-> NULL, srcObject |-> NULL]

\* AdminHome's useState defaults.
AdminHomeInit ==
  [reports |-> <<>>, filteredReports |-> <<>>, selectedReport |-> NULL,
   filters |-> [status |-> "all", category |-> "all", district |-> "all"],
   activeTab |-> "dashboard"]

\* Array.prototype.filter, by the set of indices the callback accepts.
RECURSIVE FilterFrom(_, _, _)
FilterFrom(s, keep, i) ==
  IF i > Len(s) THEN <<>>
  ELSE (IF i \in keep THEN <<s[i]>> ELSE <<>>) \o FilterFrom(s, keep, i + 1)

Filter(s, keep) == FilterFrom(s, keep, 1)

\* The "Apply filters" effect of AdminHome: three successive filters.
ApplyFiltersNoDistrict(reps, filters) ==
  LET f1 == IF filters.status # "all"
            THEN Filter(reps, {i \in 1..Len(reps) : reps[i].status = filters.status})
            ELSE reps
      f2 == IF filters.category # "all"
            THEN Filter(f1, {i \in 1..Len(f1) : f1[i].category = filters.category})
            ELSE f1
  IN f2

ApplyFilters(reps, filters) ==
  LET f1 == IF filters.status # "all"
            THEN Filter(reps, {i \in 1..Len(reps) : reps[i].status = filters.status})
            ELSE reps
      f2 == IF filters.category # "all"
            THEN Filter(f1, {i \in 1..Len(f1) : f1[i].category = filters.category})
            ELSE f1
      f3 == IF filters.district # "all"
            THEN Filter(f2, {i \in 1..Len(f2) : f2[i].location.district = filters.district})
            ELSE f2
  IN f3

\* AdminHome after its two mount effects ("Load all reports", "Apply filters").
AdminHomeMount(ls) ==
  LET allReports == ParseListOrEmpty(ls, "reports")
  IN [AdminHomeInit EXCEPT
        !.reports = allReports,
        !.filteredReports = ApplyFilters(allReports, AdminHomeInit.filters)]

\* UserHome after its mount effect ("Load reports from localStorage").
UserHomeMount(ls, user) ==
  LET allReports == ParseListOrEmpty(ls, "reports")
  IN [UserHomeInit EXCEPT
        !.reports = Filter(allReports,
                           {i \in 1..Len(allReports) : allReports[i].userId = user.id})]

\* App's render: which component the three `if` branches return.
RenderedViewNoRoleCheck(auth, user) ==
  IF auth = "login" THEN "Login"
  ELSE IF auth = "register" THEN "Register"
  ELSE IF auth = "authenticated" /\ user # NULL THEN "AdminHome"
  ELSE "none"

RenderedView(auth, user) ==
  IF auth = "login" THEN "Login"
  ELSE IF auth = "register" THEN "Register"
  ELSE IF auth = "authenticated" /\ user # NULL
       THEN (IF user.isAdmin THEN "AdminHome" ELSE "UserHome")
  ELSE "none"

View(t) == RenderedView(authState[t], currentUser[t])

\* The component states of tab t once App renders (auth, user) over storage ls:
\* a component that is not rendered is unmounted and its state is gone.
AdminAfterRender(auth, user, ls) ==
  IF RenderedView(auth, user) = "AdminHome" THEN AdminHomeMount(ls) ELSE AdminHomeInit

HomeAfterRender(auth, user, ls) ==
  IF RenderedView(auth, user) = "UserHome" THEN UserHomeMount(ls, user) ELSE UserHomeInit

NoRequests == [current |-> 0, orphaned |-> 0]

\* ------------------------------------------------------------------------ Init
Init ==
  /\ localStorage = [k \in {} |-> NULL]
  /\ now = Clock0
  /\ mounted = [t \in Tabs |-> FALSE]
  /\ authState = [t \in Tabs |-> "login"]
  /\ currentUser = [t \in Tabs |-> NULL]
  /\ admin = [t \in Tabs |-> AdminHomeInit]
  /\ home = [t \in Tabs |-> UserHomeInit]
  /\ timers = [t \in Tabs |-> 0]
  /\ gumPending = [t \in Tabs |-> NoRequests]
  /\ geoPending = [t \in Tabs |-> 0]
  /\ liveStreams = [t \in Tabs |-> {}]

\* Date.now() moves on.
Tick ==
  /\ now < Clock0 + MaxTicks
  /\ now' = now + 1
  /\ UNCHANGED <<localStorage, mounted, authState, currentUser, admin, home,
                 timers, gumPending, geoPending, liveStreams>>

\* ------------------------------------------------------------------------- App
\* The storage after the "Initialize demo data" part of App's mount effect.
SeedDemoDataAlways(ls, clock) ==
  setItem(setItem(ls, "users", JSONstringifyList(demoUsers)),
          "reports", JSONstringifyList(demoReports(clock)))

SeedDemoData(ls, clock) ==
  LET ls1 == IF ~hasItem(ls, "users")
             THEN setItem(ls, "users", JSONstringifyList(demoUsers))
             ELSE ls
  IN IF ~hasItem(ls1, "reports")
     THEN setItem(ls1, "reports", JSONstringifyList(demoReports(clock)))
     ELSE ls1

\* The page is loaded (or reloaded) in tab t: every piece of React state of
\* the tab starts from its default, the page's timers, requests and media
\* streams are gone, and App's mount effect runs.
AppMountForgetsSession(t) ==
  LET ls == SeedDemoData(localStorage, now)
  IN /\ localStorage' = ls
     /\ mounted' = [mounted EXCEPT ![t] = TRUE]
     /\ authState' = [authState EXCEPT ![t] = "login"]
     /\ currentUser' = [currentUser EXCEPT ![t] = NULL]
     /\ admin' = [admin EXCEPT ![t] = AdminHomeInit]
     /\ home' = [home EXCEPT ![t] = UserHomeInit]
     /\ timers' = [timers EXCEPT ![t] = 0]
     /\ gumPending' = [gumPending EXCEPT ![t] = NoRequests]
     /\ geoPending' = [geoPending EXCEPT ![t] = 0]
     /\ liveStreams' = [liveStreams EXCEPT ![t] = {}]
     /\ UNCHANGED now

AppMount(t) ==
  LET ls == SeedDemoData(localStorage, now)
      savedUser == getItem(ls, "currentUser")
      auth == IF hasItem(ls, "currentUser") THEN "authenticated" ELSE "login"
      user == IF hasItem(ls, "currentUser") THEN JSONparse(savedUser) ELSE NULL
  IN /\ localStorage' = ls
     /\ mounted' = [mounted EXCEPT ![t] = TRUE]
     /\ authState' = [authState EXCEPT ![t] = auth]
     /\ currentUser' = [currentUser EXCEPT ![t] = user]
     /\ admin' = [admin EXCEPT ![t] = AdminAfterRender(auth, user, ls)]
     /\ home' = [home EXCEPT ![t] = HomeAfterRender(auth, user, ls)]
     /\ timers' = [timers EXCEPT ![t] = 0]
     /\ gumPending' = [gumPending EXCEPT ![t] = NoRequests]
     /\ geoPending' = [geoPending EXCEPT ![t] = 0]
     /\ liveStreams' = [liveStreams EXCEPT ![t] = {}]
     /\ UNCHANGED now

\* users.find(u => u.email === email && u.password === password)
FindUserByEmail(users, email, password) ==
  LET hits == {i \in 1..Len(users) : users[i].email = email}
  IN IF hits = {} THEN NULL
     ELSE users[CHOOSE i \in hits : \A j \in hits : i <= j]

FindUser(users, email, password) ==
  LET hits == {i \in 1..Len(users) :
                 users[i].email = email /\ users[i].password = password}
  IN IF hits = {} THEN NULL
     ELSE users[CHOOSE i \in hits : \A j \in hits : i <= j]

\* const { password: _, ...userWithoutPassword } = user
WithoutPasswordKeepsIt(user) == user

WithoutPassword(user) == [k \in DOMAIN user \ {"password"} |-> user[k]]

\* What handleLogin returns: true where a user was found, false otherwise.
handleLoginReturns(ls, email, password) ==
  FindUser(ParseListOrEmpty(ls, "users"), email, password) # NULL

handleLogin(t, email, password) ==
  LET users == ParseListOrEmpty(localStorage, "users")
      user == FindUser(users, email, password)
  IN /\ mounted[t] /\ View(t) = "Login"
     /\ IF user # NULL
        THEN LET u == WithoutPassword(user)
                 ls == setItem(localStorage, "currentUser", JSONstringifyObject(u))
             IN /\ currentUser' = [currentUser EXCEPT ![t] = u]
                /\ localStorage' = ls
                /\ authState' = [authState EXCEPT ![t] = "authenticated"]
                /\ admin' = [admin EXCEPT ![t] = AdminAfterRender("authenticated", u, ls)]
                /\ home' = [home EXCEPT ![t] = HomeAfterRender("authenticated", u, ls)]
        ELSE UNCHANGED <<currentUser, localStorage, authState, admin, home>>
     /\ UNCHANGED <<now, mounted, timers, gumPending, geoPending, liveStreams>>

handleRegister(t, email, password, name, isAdmin) ==
  LET users == ParseListOrEmpty(localStorage, "users")
      newUser == [id |-> now, email |-> email, password |-> password,
                  name |-> name, isAdmin |-> isAdmin]
      ls1 == setItem(localStorage, "users", JSONstringifyList(Append(users, newUser)))
      u == WithoutPassword(newUser)
      ls == setItem(ls1, "currentUser", JSONstringifyObject(u))
  IN /\ mounted[t] /\ View(t) = "Register"
     /\ Len(users) < MaxUsers
     /\ currentUser' = [currentUser EXCEPT ![t] = u]
     /\ localStorage' = ls
     /\ authState' = [authState EXCEPT ![t] = "authenticated"]
     /\ admin' = [admin EXCEPT ![t] = AdminAfterRender("authenticated", u, ls)]
     /\ home' = [home EXCEPT ![t] = HomeAfterRender("authenticated", u, ls)]
     /\ UNCHANGED <<now, mounted, timers, gumPending, geoPending, liveStreams>>

\* onLogout of AdminHome and UserHome.  The component unmounts: its state is
\* gone and its alert timers and geolocation callbacks can no longer change
\* anything; there is no unmount cleanup, so live camera streams stay live
\* and getUserMedia requests stay in flight.
handleLogout(t) ==
  /\ mounted[t] /\ View(t) \in {"AdminHome", "UserHome"}
  /\ currentUser' = [currentUser EXCEPT ![t] = NULL]
  /\ localStorage' = removeItem(localStorage, "currentUser")
  /\ authState' = [authState EXCEPT ![t] = "login"]
  /\ admin' = [admin EXCEPT ![t] = AdminHomeInit]
  /\ home' = [home EXCEPT ![t] = UserHomeInit]
  /\ timers' = [timers EXCEPT ![t] = 0]
  /\ geoPending' = [geoPending EXCEPT ![t] = 0]
  /\ gumPending' = [gumPending EXCEPT ![t] =
                      [current |-> 0, orphaned |-> @.orphaned + @.current]]
  /\ UNCHANGED <<now, mounted, liveStreams>>

\* onSwitchToRegister / onSwitchToLogin
SwitchToRegister(t) ==
  /\ mounted[t] /\ View(t) = "Login"
  /\ authState' = [authState EXCEPT ![t] = "register"]
  /\ UNCHANGED <<localStorage, now, mounted, currentUser, admin, home,
                 timers, gumPending, geoPending, liveStreams>>

SwitchToLogin(t) ==
  /\ mounted[t] /\ View(t) = "Register"
  /\ authState' = [authState EXCEPT ![t] = "login"]
  /\ UNCHANGED <<localStorage, now, mounted, currentUser, admin, home,
                 timers, gumPending, geoPending, liveStreams>>

\* -------------------------------------------------------------------- UserHome
UserHomeShown(t) == mounted[t] /\ View(t) = "UserHome"

\* The report form (and with it the <video> and the file input) is rendered
\* only on the 'report' tab.
ReportTabShown(t) == UserHomeShown(t) /\ home[t].activeTab = "report"

\* showAlert: setAlert({type, message}); setTimeout(() => setAlert(null), 5000).
\* The state part; the timer is added by the action that calls it.
showAlertNoAlert(h, type, message) == h

showAlert(h, type, message) ==
  [h EXCEPT !.alert = [type |-> type, message |-> message]]

\* The callback of one of showAlert's timers.  Timers have the same delay, so
\* they fire in the order they were started.
TimerFireKeepsAlert(t) ==
  /\ timers[t] > 0
  /\ timers' = [timers EXCEPT ![t] = @ - 1]
  /\ UNCHANGED <<localStorage, now, mounted, authState, currentUser, admin, home,
                 gumPending, geoPending, liveStreams>>

TimerFire(t) ==
  /\ timers[t] > 0
  /\ timers' = [timers EXCEPT ![t] = @ - 1]
  /\ home' = [home EXCEPT ![t].alert = NULL]
  /\ UNCHANGED <<localStorage, now, mounted, authState, currentUser, admin,
                 gumPending, geoPending, liveStreams>>

\* The two navigation buttons.  Leaving the 'report' tab unmounts the <video>
\* element; the one created on coming back has no srcObject, and the attach
\* effect does not run again since isUsingCamera and cameraStream are the same.
UserSetActiveTab(t, tab) ==
  /\ UserHomeShown(t)
  /\ home' = [home EXCEPT ![t].activeTab = tab,
                          ![t].srcObject = IF tab = home[t].activeTab THEN @ ELSE NULL]
  /\ UNCHANGED <<localStorage, now, mounted, authState, currentUser, admin,
                 timers, gumPending, geoPending, liveStreams>>

\* onChange of the text inputs: setFormData(p => ({ ...p, [field]: value })).
TextFields == {"address", "village", "district", "pincode", "state",
               "title", "description"}

setFormField(t, field, value) ==
  /\ ReportTabShown(t)
  /\ field \in TextFields
  /\ home' = [home EXCEPT ![t].formData[field] = value]
  /\ UNCHANGED <<localStorage, now, mounted, authState, currentUser, admin,
                 timers, gumPending, geoPending, liveStreams>>

\* URL.createObjectURL(file) and canvas.toDataURL('image/jpeg')
BlobUrl == "blob:upload"
DataUrl == "data:image/jpeg;base64"

RECURSIVE Repeat(_, _)
Repeat(x, n) == IF n = 0 THEN <<>> ELSE <<x>> \o Repeat(x, n - 1)

\* The hidden file input is rendered next to "Use Camera", while the camera is
\* not in use; n is the number of files chosen.
handleFileUpload(t, n) ==
  /\ ReportTabShown(t) /\ ~home[t].isUsingCamera
  /\ Len(home[t].formData.imageUrls) + n <= MaxImages
  /\ timers[t] < MaxTimers
  /\ home' = [home EXCEPT ![t] =
       showAlert([@ EXCEPT !.formData.imageUrls = @ \o Repeat(BlobUrl, n)],
                 "success", "Image(s) uploaded")]
  /\ timers' = [timers EXCEPT ![t] = @ + 1]
  /\ UNCHANGED <<localStorage, now, mounted, authState, currentUser, admin,
                 gumPending, geoPending, liveStreams>>

removeImageAtIndex(t, index) ==
  /\ ReportTabShown(t)
  /\ index \in 1..Len(home[t].formData.imageUrls)
  /\ home' = [home EXCEPT ![t].formData.imageUrls =
                Filter(@, (1..Len(@)) \ {index})]
  /\ UNCHANGED <<localStorage, now, mounted, authState, currentUser, admin,
                 timers, gumPending, geoPending, liveStreams>>

\* ---- geolocation
\* (lat).toFixed(6) + ', ' + (lon).toFixed(6), for whole-degree coordinates
CoordsAddress(coords) ==
  ToString(coords.latitude) \o ".000000, " \o ToString(coords.longitude) \o ".000000"

\* "Get Current Location": without navigator.geolocation an alert, otherwise a
\* request whose answer comes later.
getCurrentLocation(t, supported) ==
  /\ ReportTabShown(t)
  /\ IF supported
     THEN /\ geoPending[t] < MaxPending
          /\ geoPending' = [geoPending EXCEPT ![t] = @ + 1]
          /\ UNCHANGED <<home, timers>>
     ELSE /\ timers[t] < MaxTimers
          /\ home' = [home EXCEPT ![t] = showAlert(@, "error", "Geolocation not supported")]
          /\ timers' = [timers EXCEPT ![t] = @ + 1]
          /\ UNCHANGED geoPending
  /\ UNCHANGED <<localStorage, now, mounted, authState, currentUser, admin,
                 gumPending, liveStreams>>

\* The success callback of getCurrentPosition.
GeolocationSuccess(t, coords) ==
  /\ UserHomeShown(t) /\ geoPending[t] > 0
  /\ timers[t] < MaxTimers
  /\ geoPending' = [geoPending EXCEPT ![t] = @ - 1]
  /\ home' = [home EXCEPT ![t] =
       [showAlert(@, "success", "Location captured") EXCEPT
          !.location = [latitude |-> coords.latitude, longitude |-> coords.longitude],
          !.formData.address = CoordsAddress(coords),
          !.formData.village = "Sample Village",
          !.formData.district = "Sample District",
          !.formData.pincode = "123456",
          !.formData.state = "Sample State"]]
  /\ timers' = [timers EXCEPT ![t] = @ + 1]
  /\ UNCHANGED <<localStorage, now, mounted, authState, currentUser, admin,
                 gumPending, liveStreams>>

\* The error callback of getCurrentPosition.
GeolocationError(t) ==
  /\ UserHomeShown(t) /\ geoPending[t] > 0
  /\ timers[t] < MaxTimers
  /\ geoPending' = [geoPending EXCEPT ![t] = @ - 1]
  /\ home' = [home EXCEPT ![t] = showAlert(@, "error", "Unable to get location")]
  /\ timers' = [timers EXCEPT ![t] = @ + 1]
  /\ UNCHANGED <<localStorage, now, mounted, authState, currentUser, admin,
                 gumPending, liveStreams>>

\* ---- camera
Min(S) == CHOOSE x \in S : \A y \in S : x <= y

\* "Use Camera" (shown while the camera is not in use): startCamera up to its
\* await of getUserMedia.
startCamera(t) ==
  /\ ReportTabShown(t) /\ ~home[t].isUsingCamera
  /\ gumPending[t].current + gumPending[t].orphaned < MaxPending
  /\ gumPending' = [gumPending EXCEPT ![t].current = @ + 1]
  /\ UNCHANGED <<localStorage, now, mounted, authState, currentUser, admin, home,
                 timers, geoPending, liveStreams>>

\* startCamera after the await, getUserMedia having resolved with a new stream:
\* setIsUsingCamera(true); setCameraStream(stream); then the attach effect
\* gives the stream to the <video> element, if one is rendered.
GetUserMediaResolve(t) ==
  /\ gumPending[t].current > 0
  /\ Cardinality(liveStreams[t]) < MaxStreams
  /\ LET stream == [id |-> Min((1..MaxStreams) \ liveStreams[t])]
     IN /\ liveStreams' = [liveStreams EXCEPT ![t] = @ \cup {stream.id}]
        /\ home' = [home EXCEPT
             ![t].isUsingCamera = TRUE,
             ![t].cameraStream = stream,
             ![t].srcObject = IF home[t].activeTab = "report" THEN stream ELSE @]
  /\ gumPending' = [gumPending EXCEPT ![t].current = @ - 1]
  /\ UNCHANGED <<localStorage, now, mounted, authState, currentUser, admin,
                 timers, geoPending>>

\* The catch block of startCamera.
startCameraCatchTurnsCameraOn(h) ==
  [showAlert(h, "error", "Unable to access camera. Please use file upload instead.")
     EXCEPT !.isUsingCamera = TRUE]

startCameraCatch(h) ==
  showAlert(h, "error", "Unable to access camera. Please use file upload instead.")

\* startCamera after the await, getUserMedia having rejected.
GetUserMediaReject(t) ==
  /\ gumPending[t].current > 0
  /\ timers[t] < MaxTimers
  /\ gumPending' = [gumPending EXCEPT ![t].current = @ - 1]
  /\ home' = [home EXCEPT ![t] = startCameraCatch(@)]
  /\ timers' = [timers EXCEPT ![t] = @ + 1]
  /\ UNCHANGED <<localStorage, now, mounted, authState, currentUser, admin,
                 geoPending, liveStreams>>

\* A getUserMedia promise of a UserHome that has been unmounted settles: its
\* setState calls do nothing; a stream it resolved with is live all the same.
OrphanedGetUserMediaResolve(t) ==
  /\ gumPending[t].orphaned > 0
  /\ Cardinality(liveStreams[t]) < MaxStreams
  /\ liveStreams' = [liveStreams EXCEPT ![t] = @ \cup {Min((1..MaxStreams) \ @)}]
  /\ gumPending' = [gumPending EXCEPT ![t].orphaned = @ - 1]
  /\ UNCHANGED <<localStorage, now, mounted, authState, currentUser, admin, home,
                 timers, geoPending>>

OrphanedGetUserMediaReject(t) ==
  /\ gumPending[t].orphaned > 0
  /\ gumPending' = [gumPending EXCEPT ![t].orphaned = @ - 1]
  /\ UNCHANGED <<localStorage, now, mounted, authState, currentUser, admin, home,
                 timers, geoPending, liveStreams>>

\* stopCamera, as a change of UserHome's state and of the live streams.
stopCameraState(h) ==
  [h EXCEPT !.cameraStream = NULL, !.isUsingCamera = FALSE, !.srcObject = NULL]

stopCameraStreams(h, live) ==
  IF h.cameraStream # NULL THEN live \ {h.cameraStream.id} ELSE live

\* "Cancel", shown with the <video> while the camera is in use.
stopCamera(t) ==
  /\ ReportTabShown(t) /\ home[t].isUsingCamera
  /\ home' = [home EXCEPT ![t] = stopCameraState(@)]
  /\ liveStreams' = [liveStreams EXCEPT ![t] = stopCameraStreams(home[t], @)]
  /\ UNCHANGED <<localStorage, now, mounted, authState, currentUser, admin,
                 timers, gumPending, geoPending>>

\* "Capture Photo".  The <video> has dimensions only once it plays a stream;
\* ready says whether it has them when the button is pressed.
capturePhoto(t, ready) ==
  /\ ReportTabShown(t) /\ home[t].isUsingCamera
  /\ ready => home[t].srcObject # NULL
  /\ timers[t] < MaxTimers
  /\ IF ~ready
     THEN /\ home' = [home EXCEPT ![t] = showAlert(@, "error", "Video not ready")]
          /\ UNCHANGED liveStreams
     ELSE /\ Len(home[t].formData.imageUrls) < MaxImages
          /\ home' = [home EXCEPT ![t] =
               showAlert(stopCameraState(
                           [@ EXCEPT !.formData.imageUrls = Append(@, DataUrl)]),
                         "success", "Photo captured successfully")]
          /\ liveStreams' = [liveStreams EXCEPT ![t] = stopCameraStreams(home[t], @)]
  /\ timers' = [timers EXCEPT ![t] = @ + 1]
  /\ UNCHANGED <<localStorage, now, mounted, authState, currentUser, admin,
                 gumPending, geoPending>>

\* ---- submitReport
\* !formData.title || !formData.description || formData.imageUrls.length === 0
MissingFieldsIgnoresImages(formData) ==
  formData.title = "" \/ formData.description = ""

MissingFields(formData) ==
  formData.title = "" \/ formData.description = "" \/ Len(formData.imageUrls) = 0

\* !location && !formData.address
MissingLocation(location, formData) ==
  location = NULL /\ formData.address = ""

newReportStatusOpen(user, formData, location, clock) ==
  [id |-> clock, userId |-> user.id, title |-> formData.title,
   description |-> formData.description, category |-> formData.category,
   imageUrls |-> formData.imageUrls,
   location |-> [latitude |-> IF location = NULL THEN 0 ELSE location.latitude,
                 longitude |-> IF location = NULL THEN 0 ELSE location.longitude,
                 address |-> formData.address, village |-> formData.village,
                 district |-> formData.district, pincode |-> formData.pincode,
                 state |-> formData.state],
   status |-> "open", timestamp |-> clock]

\* userId taken from nowhere.
newReportAnonymous(user, formData, location, clock) ==
  [id |-> clock, userId |-> 0, title |-> formData.title,
   description |-> formData.description, category |-> formData.category,
   imageUrls |-> formData.imageUrls,
   location |-> [latitude |-> IF location = NULL THEN 0 ELSE location.latitude,
                 longitude |-> IF location = NULL THEN 0 ELSE location.longitude,
                 address |-> formData.address, village |-> formData.village,
                 district |-> formData.district, pincode |-> formData.pincode,
                 state |-> formData.state],
   status |-> "pending", timestamp |-> clock]

newReport(user, formData, location, clock) ==
  [id |-> clock, userId |-> user.id, title |-> formData.title,
   description |-> formData.description, category |-> formData.category,
   imageUrls |-> formData.imageUrls,
   location |-> [latitude |-> IF location = NULL THEN 0 ELSE location.latitude,
                 longitude |-> IF location = NULL THEN 0 ELSE location.longitude,
                 address |-> formData.address, village |-> formData.village,
                 district |-> formData.district, pincode |-> formData.pincode,
                 state |-> formData.state],
   status |-> "pending", timestamp |-> clock]

\* "Submit Report"; limit is the length limit of the `reports` array.
submitReportUpTo(t, limit) ==
  LET h == home[t]
      report == newReport(currentUser[t], h.formData, h.location, now)
      allReports == ParseListOrEmpty(localStorage, "reports")
  IN /\ ReportTabShown(t)
     /\ timers[t] < MaxTimers
     /\ timers' = [timers EXCEPT ![t] = @ + 1]
     /\ IF MissingFields(h.formData)
        THEN /\ home' = [home EXCEPT ![t] =
                  showAlert(@, "error", "Fill all fields and add image")]
             /\ UNCHANGED localStorage
        ELSE IF MissingLocation(h.location, h.formData)
        THEN /\ home' = [home EXCEPT ![t] =
                  showAlert(@, "error", "Provide location or address")]
             /\ UNCHANGED localStorage
        ELSE /\ Len(allReports) < limit
             /\ localStorage' = setItem(localStorage, "reports",
                                        JSONstringifyList(Append(allReports, report)))
             /\ home' = [home EXCEPT ![t] =
                  [showAlert(@, "success", "Report submitted") EXCEPT
                     !.reports = Append(@, report),
                     !.formData = EmptyForm,
                     !.location = NULL,
                     !.activeTab = "myReports",
                     !.srcObject = NULL]]
     /\ UNCHANGED <<now, mounted, authState, currentUser, admin,
                    gumPending, geoPending, liveStreams>>

submitReport(t) == submitReportUpTo(t, MaxReports)

\* ------------------------------------------------------------------- AdminHome
AdminHomeShown(t) == mounted[t] /\ View(t) = "AdminHome"

AdminTabs == {"dashboard", "reports", "map", "analytics"}

\* <Tabs onValueChange={setActiveTab}>
AdminSetActiveTab(t, tab) ==
  /\ AdminHomeShown(t)
  /\ tab \in AdminTabs
  /\ admin' = [admin EXCEPT ![t].activeTab = tab]
  /\ UNCHANGED <<localStorage, now, mounted, authState, currentUser, home,
                 timers, gumPending, geoPending, liveStreams>>

\* reports.slice(0, 5): the cards of "Recent Reports"
RecentReports(reps) == SubSeq(reps, 1, IF Len(reps) < 5 THEN Len(reps) ELSE 5)

\* The eye button of a "Recent Reports" card.
ViewRecentReport(t, i) ==
  /\ AdminHomeShown(t) /\ admin[t].activeTab = "dashboard"
  /\ i \in 1..Len(RecentReports(admin[t].reports))
  /\ admin' = [admin EXCEPT ![t].selectedReport = RecentReports(admin[t].reports)[i],
                            ![t].activeTab = "reports"]
  /\ UNCHANGED <<localStorage, now, mounted, authState, currentUser, home,
                 timers, gumPending, geoPending, liveStreams>>

\* onClick of a card of the "All Reports" list.
SelectReport(t, i) ==
  /\ AdminHomeShown(t) /\ admin[t].activeTab = "reports"
  /\ i \in 1..Len(admin[t].filteredReports)
  /\ admin' = [admin EXCEPT ![t].selectedReport = admin[t].filteredReports[i]]
  /\ UNCHANGED <<localStorage, now, mounted, authState, currentUser, home,
                 timers, gumPending, geoPending, liveStreams>>

\* The options of the three filter selects.
StatusOptions == {"all", "pending", "in-progress", "resolved"}
CategoryOptions == {"all", "pothole", "streetlight", "garbage", "drainage",
                    "traffic", "other"}

\* getUniqueValues('district'): [...new Set(districts)].filter(Boolean)
getUniqueValues(reps) ==
  {reps[i].location.district : i \in 1..Len(reps)} \ {""}

FilterOptions(a, key) ==
  IF key = "status" THEN StatusOptions
  ELSE IF key = "category" THEN CategoryOptions
  ELSE {"all"} \cup getUniqueValues(a.reports)

\* onValueChange of a filter select, followed by the "Apply filters" effect.
SetFilter(t, key, value) ==
  /\ AdminHomeShown(t) /\ admin[t].activeTab = "reports"
  /\ key \in {"status", "category", "district"}
  /\ value \in FilterOptions(admin[t], key)
  /\ LET filters == [admin[t].filters EXCEPT ![key] = value]
     IN admin' = [admin EXCEPT
          ![t].filters = filters,
          ![t].filteredReports = ApplyFilters(admin[t].reports, filters)]
  /\ UNCHANGED <<localStorage, now, mounted, authState, currentUser, home,
                 timers, gumPending, geoPending, liveStreams>>

\* { ...report, status, department, comments, assignedTo: user.name }
WithStatusOnly(report, status, department, comments, assignedTo) ==
  [report EXCEPT !.status = status]

WithStatus(report, status, department, comments, assignedTo) ==
  [k \in DOMAIN report \cup {"status", "department", "comments", "assignedTo"} |->
     IF k = "status" THEN status
     ELSE IF k = "department" THEN department
     ELSE IF k = "comments" THEN comments
     ELSE IF k = "assignedTo" THEN assignedTo
     ELSE report[k]]

\* reports.map(report => report.id === reportId ? {...} : report)
MapStatus(reps, reportId, status, department, comments, assignedTo) ==
  [i \in 1..Len(reps) |->
     IF reps[i].id = reportId
     THEN WithStatus(reps[i], status, department, comments, assignedTo)
     ELSE reps[i]]

\* updateReportStatus, followed by the "Apply filters" effect that the change
\* of `reports` triggers.
updateReportStatus(t, reportId, status, department, comments) ==
  LET a == admin[t]
      user == currentUser[t]
      updatedReports == MapStatus(a.reports, reportId, status, department,
                                  comments, user.name)
  IN /\ admin' = [admin EXCEPT
          ![t].reports = updatedReports,
          ![t].filteredReports = ApplyFilters(updatedReports, a.filters),
          ![t].selectedReport =
             IF a.selectedReport # NULL /\ a.selectedReport.id = reportId
             THEN WithStatus(a.selectedReport, status, department, comments, user.name)
             ELSE a.selectedReport]
     /\ localStorage' = setItem(localStorage, "reports",
                                JSONstringifyList(updatedReports))
     /\ UNCHANGED <<now, mounted, authState, currentUser, home,
                    timers, gumPending, geoPending, liveStreams>>

\* The "Update Status" block of the details panel is rendered for a selected
\* report that is not resolved.
UpdateStatusShown(t) ==
  /\ AdminHomeShown(t) /\ admin[t].activeTab = "reports"
  /\ admin[t].selectedReport # NULL
  /\ admin[t].selectedReport.status # "resolved"

\* "Mark In Progress"
MarkInProgress(t) ==
  /\ UpdateStatusShown(t)
  /\ updateReportStatus(t, admin[t].selectedReport.id, "in-progress",
                        "Public Works", Undefined)

\* "Mark Resolved"
MarkResolved(t) ==
  /\ UpdateStatusShown(t)
  /\ updateReportStatus(t, admin[t].selectedReport.id, "resolved",
                        "Public Works", "Issue resolved successfully")

Count(reps, status) == Cardinality({i \in 1..Len(reps) : reps[i].status = status})

getDashboardStatsPendingIsRest(reps) ==
  [total |-> Len(reps),
   pending |-> Cardinality({i \in 1..Len(reps) : reps[i].status # "resolved"}),
   inProgress |-> Count(reps, "in-progress"),
   resolved |-> Count(reps, "resolved")]

getDashboardStats(reps) ==
  [total |-> Len(reps),
   pending |-> Count(reps, "pending"),
   inProgress |-> Count(reps, "in-progress"),
   resolved |-> Count(reps, "resolved")]

\* --------------------------------------------------------------- specifications
Emails == {"user@demo.com", "admin@demo.com", "new@demo.com"}
Passwords == {"password123", "admin123", "secret"}

\* Load or reload the page, log in, log out.
SessionNext(t) ==
  \/ AppMount(t)
  \/ \E email \in Emails, password \in Passwords : handleLogin(t, email, password)
  \/ handleLogout(t)

\* Registration.
RegisterNext(t) ==
  \/ SwitchToRegister(t)
  \/ SwitchToLogin(t)
  \/ \E email \in {"new@demo.com", "user@demo.com"},
        password \in {"password123", "secret"}, isAdmin \in BOOLEAN :
       handleRegister(t, email, password, "New User", isAdmin)

\* The report flow of UserHome: type a title, a description and an address,
\* attach a file, submit.
ReportNext(t) ==
  \/ \E tab \in {"report", "myReports"} : UserSetActiveTab(t, tab)
  \/ \E field \in {"title", "description", "address"} :
       setFormField(t, field, "text")
  \/ handleFileUpload(t, 1)
  \/ submitReport(t)
  \/ TimerFire(t)

\* The triage flow of AdminHome.
TriageNext(t) ==
  \/ \E tab \in {"dashboard", "reports"} : AdminSetActiveTab(t, tab)
  \/ \E i \in 1..MaxReports : ViewRecentReport(t, i)
  \/ \E i \in 1..MaxReports : SelectReport(t, i)
  \/ MarkInProgress(t)
  \/ MarkResolved(t)
  \/ \E value \in {"all", "pending", "resolved"} : SetFilter(t, "status", value)
  \/ \E value \in {"all", "streetlight"} : SetFilter(t, "category", value)
  \/ \E value \in {"all", "New Delhi"} : SetFilter(t, "district", value)

Next ==
  \/ SessionNext(1)
  \/ ReportNext(1)
  \/ TriageNext(1)

\* One tab: sessions, report submission, triage.
Spec == Init /\ [][Next]_vars

NextAuth ==
  \/ Tick
  \/ SessionNext(1)
  \/ RegisterNext(1)

\* One tab: sessions and registration, with the clock that gives the ids.
SpecAuth == Init /\ [][NextAuth]_vars

\* Two tabs on the same origin: the admin is logged in in tab 1, a citizen
\* in tab 2.
NextTabs ==
  \/ \E t \in Tabs : AppMount(t)
  \/ handleLogin(1, "admin@demo.com", "admin123")
  \/ handleLogin(2, "user@demo.com", "password123")
  \/ \E field \in {"title", "description", "address"} :
       setFormField(2, field, "text")
  \/ handleFileUpload(2, 1)
  \/ submitReport(2)
  \/ TimerFire(2)
  \/ \E i \in 1..MaxReports : ViewRecentReport(1, i)
  \/ MarkInProgress(1)
  \/ MarkResolved(1)

SpecTabs == Init /\ [][NextTabs]_vars

\* The whole-degree positions the geolocation API answers with.
Positions == {[latitude |-> 28, longitude |-> 77]}

\* The report form of UserHome: every input, the file input, geolocation.
FormNext(t) ==
  \/ \E field \in {"title", "description", "address"}, value \in {"", "text"} :
       setFormField(t, field, value)
  \/ \E n \in 1..MaxImages : handleFileUpload(t, n)
  \/ \E index \in 1..MaxImages : removeImageAtIndex(t, index)
  \/ \E supported \in BOOLEAN : getCurrentLocation(t, supported)
  \/ \E coords \in Positions : GeolocationSuccess(t, coords)
  \/ GeolocationError(t)
  \/ submitReport(t)
  \/ TimerFire(t)

\* The camera of UserHome.
CameraNext(t) ==
  \/ \E tab \in {"report", "myReports"} : UserSetActiveTab(t, tab)
  \/ startCamera(t)
  \/ GetUserMediaResolve(t)
  \/ GetUserMediaReject(t)
  \/ OrphanedGetUserMediaResolve(t)
  \/ OrphanedGetUserMediaReject(t)
  \/ \E ready \in BOOLEAN : capturePhoto(t, ready)
  \/ stopCamera(t)
  \/ TimerFire(t)

\* The demo citizen's session.
CitizenNext(t) ==
  \/ AppMount(t)
  \/ handleLogin(t, "user@demo.com", "password123")
  \/ handleLogout(t)

NextForm == CitizenNext(1) \/ FormNext(1)

\* One tab, the demo citizen: the report form.
SpecForm == Init /\ [][NextForm]_vars

NextCamera == CitizenNext(1) \/ CameraNext(1)

\* One tab, the demo citizen: the camera.
SpecCamera == Init /\ [][NextCamera]_vars

\* SpecCamera, with the browser firing every timer it holds.
FairCamera == SpecCamera /\ WF_vars(TimerFire(1))

\* ------------------------------------------------------------------- properties
StoredReports == ParseListOrEmpty(localStorage, "reports")
StoredUsers == ParseListOrEmpty(localStorage, "users")

\* A report written by submitReport (the demo reports carry imageUrl instead).
Submitted(r) == "imageUrls" \in DOMAIN r

\* C1: every report in the `reports` store has a status that is one of pending,
\* in-progress or resolved.
C1_StatusIsEnumerated ==
  \A i \in 1..Len(StoredReports) :
    StoredReports[i].status \in {"pending", "in-progress", "resolved"}

\* A submitted report has been resolved by the admin.
C1_Witness ==
  \E i \in 1..Len(StoredReports) :
    Submitted(StoredReports[i]) /\ StoredReports[i].status = "resolved"

\* C2: no update to the `reports` store is lost: in every step, every report
\* of the store stays in the store, and its status changes only if the step
\* is an updateReportStatus applied to that report.
C2_NoUpdateLost ==
  [][LET after == ParseListOrEmpty(localStorage', "reports")
     IN \A i \in 1..Len(StoredReports) :
          /\ i <= Len(after)
          /\ after[i].id = StoredReports[i].id
          /\ after[i].status # StoredReports[i].status =>
               \E t \in Tabs :
                 /\ UpdateStatusShown(t)
                 /\ admin[t].selectedReport.id = StoredReports[i].id
                 /\ (MarkInProgress(t) \/ MarkResolved(t))]_vars

\* C3: a step that changes the status of a stored report is a step of
\* updateReportStatus (through one of its two buttons) taken in a tab where
\* authState is 'authenticated' and currentUser.isAdmin is true.
StatusChanges ==
  LET after == ParseListOrEmpty(localStorage', "reports")
  IN \E i \in 1..Len(StoredReports) :
       i <= Len(after) /\ after[i].status # StoredReports[i].status

C3_StatusOnlyByAdmin ==
  [][StatusChanges =>
       \E t \in Tabs :
         /\ authState[t] = "authenticated"
         /\ currentUser[t] # NULL
         /\ currentUser[t].isAdmin
         /\ (MarkInProgress(t) \/ MarkResolved(t))]_vars

\* The admin has resolved the first demo report, which was seeded as pending.
C3_Witness ==
  /\ Len(StoredReports) >= 1
  /\ StoredReports[1].status = "resolved"
  /\ StoredReports[1].assignedTo = "Admin User"

\* C4: a step of submitReport writes a report to the `reports` store if and
\* only if the form has a non-empty title, a non-empty description, at least
\* one image, and a captured location or a non-empty address.
FormComplete(h) ==
  /\ h.formData.title # ""
  /\ h.formData.description # ""
  /\ Len(h.formData.imageUrls) >= 1
  /\ (h.location # NULL \/ h.formData.address # "")

C4_WritesIffFormComplete ==
  [][\A t \in Tabs :
       submitReport(t) =>
         LET after == ParseListOrEmpty(localStorage', "reports")
         IN (after # StoredReports /\ Len(after) = Len(StoredReports) + 1)
              <=> FormComplete(home[t])]_vars

\* A report was written from a form with a captured location and no address.
C4_Witness ==
  \E i \in 1..Len(StoredReports) :
    /\ Submitted(StoredReports[i])
    /\ StoredReports[i].location.address = ""
    /\ StoredReports[i].location.latitude = 28
    /\ home[1].alert # NULL
    /\ home[1].alert.message = "Report submitted"

\* C5: a step of submitReport on an incomplete form raises an error alert and
\* leaves the `reports` store, the My Reports list, the form data, the
\* captured location and the active tab as they were.
C5_RejectionChangesNothingElse ==
  [][\A t \in Tabs :
       (submitReport(t) /\ ~FormComplete(home[t])) =>
         /\ home'[t].alert # NULL
         /\ home'[t].alert.type = "error"
         /\ localStorage' = localStorage
         /\ home'[t].reports = home[t].reports
         /\ home'[t].formData = home[t].formData
         /\ home'[t].location = home[t].location
         /\ home'[t].activeTab = home[t].activeTab]_vars

\* The form was rejected for its missing location and address, and still
\* holds the title, the description and the image.
C5_Witness ==
  /\ home[1].alert # NULL
  /\ home[1].alert.message = "Provide location or address"
  /\ home[1].formData.title = "text"
  /\ home[1].formData.description = "text"
  /\ Len(home[1].formData.imageUrls) = 1
  /\ Len(StoredReports) = 2

\* C6: whenever an alert is displayed, the alert state eventually returns to
\* null (the timers being allowed to fire).
C6_AlertsAreTransient ==
  \A t \in Tabs : (home[t].alert # NULL) ~> (home[t].alert = NULL)

\* An alert is displayed while two timers are pending.
C6_Witness ==
  /\ home[1].alert # NULL
  /\ timers[1] = 2

\* C7: when getUserMedia rejects, an error alert is raised, isUsingCamera and
\* cameraStream stay as they are (false and null), the form data is unchanged
\* and no getUserMedia request is made; a request is made only by a press of
\* "Use Camera".
Requests(t) == gumPending[t].current + gumPending[t].orphaned

Matches(r, filters) ==
  /\ filters.status = "all" \/ r.status = filters.status
  /\ filters.category = "all" \/ r.category = filters.category
  /\ filters.district = "all" \/ r.location.district = filters.district

C8_FilteredIsMatchingSublist ==
  \A t \in Tabs :
    LET a == admin[t]
        hits == {i \in 1..Len(a.reports) : Matches(a.reports[i], a.filters)}
    IN /\ Len(a.filteredReports) = Cardinality(hits)
       /\ \A k \in 1..Len(a.filteredReports) :
            \E i \in hits :
              /\ a.filteredReports[k] = a.reports[i]
              /\ Cardinality({j \in hits : j <= i}) = k
       /\ (a.filters = AdminHomeInit.filters => a.filteredReports = a.reports)

\* A district filter and a status filter are set, some reports pass and some
\* do not.
C8_Witness ==
  /\ admin[1].filters.district = "New Delhi"
  /\ admin[1].filters.status = "resolved"
  /\ Len(admin[1].filteredReports) = 1
  /\ Len(admin[1].reports) = 3

\* C9: getDashboardStats returns total = pending + inProgress + resolved, where
\* total is the number of reports AdminHome holds.
C9_StatsPartition ==
  \A t \in Tabs :
    LET stats == getDashboardStats(admin[t].reports)
    IN /\ stats.total = stats.pending + stats.inProgress + stats.resolved
       /\ stats.total = Len(admin[t].reports)

\* The dashboard shows three reports, one in each status.
C9_Witness ==
  LET stats == getDashboardStats(admin[1].reports)
  IN stats.pending = 1 /\ stats.inProgress = 1 /\ stats.resolved = 1

\* C10: the `currentUser` state and the value under the `currentUser` key have
\* exactly the fields id, email, name and isAdmin.
SessionFields == {"id", "email", "name", "isAdmin"}

C10_SessionHasNoPassword ==
  /\ \A t \in Tabs :
       currentUser[t] # NULL => DOMAIN currentUser[t] = SessionFields
  /\ hasItem(localStorage, "currentUser") =>
       DOMAIN getItem(localStorage, "currentUser") = SessionFields

\* A session created by handleRegister, after one created by handleLogin was
\* ended: the stored session is the registered user's.
C10_Witness ==
  /\ currentUser[1] # NULL
  /\ currentUser[1].name = "New User"
  /\ hasItem(localStorage, "currentUser")
  /\ getItem(localStorage, "currentUser") = currentUser[1]
  /\ Len(StoredUsers) = 3
  /\ StoredUsers[3].password = "secret"

\* C11: every report in the `reports` store has an imageUrl field, and it is
\* not empty.
C11_ImageUrlDefined ==
  \A i \in 1..Len(StoredReports) :
    /\ "imageUrl" \in DOMAIN StoredReports[i]
    /\ StoredReports[i].imageUrl # ""

\* ---------------------------------------------------------------- the three keys
\* localStorage belongs to the origin: another script of the page keeps a key
\* of its own there, which is present before the app runs for the first time.
InitStore ==
  /\ localStorage = [k \in {"theme"} |-> "dark"]
  /\ now = Clock0
  /\ mounted = [t \in Tabs |-> FALSE]
  /\ authState = [t \in Tabs |-> "login"]
  /\ currentUser = [t \in Tabs |-> NULL]
  /\ admin = [t \in Tabs |-> AdminHomeInit]
  /\ home = [t \in Tabs |-> UserHomeInit]
  /\ timers = [t \in Tabs |-> 0]
  /\ gumPending = [t \in Tabs |-> NoRequests]
  /\ geoPending = [t \in Tabs |-> 0]
  /\ liveStreams = [t \in Tabs |-> {}]

\* Every handler that touches localStorage: seeding, login, registration,
\* logout, report submission, status update.
NextStore ==
  \/ AppMount(1)
  \/ \E email \in Emails : handleLogin(1, email, "password123")
  \/ handleLogin(1, "admin@demo.com", "admin123")
  \/ SwitchToRegister(1)
  \/ SwitchToLogin(1)
  \/ handleRegister(1, "new@demo.com", "password123", "New User", FALSE)
  \/ handleLogout(1)
  \/ \E field \in {"title", "description", "address"} :
       setFormField(1, field, "text")
  \/ handleFileUpload(1, 1)
  \/ submitReport(1)
  \/ \E i \in 1..MaxReports : ViewRecentReport(1, i)
  \/ MarkInProgress(1)
  \/ MarkResolved(1)

SpecStore == InitStore /\ [][NextStore]_vars

\* The keys of the application.
AppKeys == {"users", "reports", "currentUser"}

\* A parsed JSON value that is an array.
IsArray(v) == DOMAIN v = 1..Len(v)

\* C12: no step adds, removes or changes a key of localStorage other than
\* `users`, `reports` and `currentUser`, and `users` and `reports`, once
\* written, always hold arrays.
C12_OnlyThreeKeys ==
  /\ [](\A key \in {"users", "reports"} :
          hasItem(localStorage, key) => IsArray(getItem(localStorage, key)))
  /\ [][\A k \in (DOMAIN localStorage \cup DOMAIN localStorage') \ AppKeys :
          /\ k \in DOMAIN localStorage
          /\ k \in DOMAIN localStorage'
          /\ localStorage'[k] = localStorage[k]]_vars

\* Every handler has written: a user was registered, a report was submitted,
\* the admin has resolved a report and is logged in; the foreign key is there.
C12_Witness ==
  /\ DOMAIN localStorage = AppKeys \cup {"theme"}
  /\ localStorage["theme"] = "dark"
  /\ Len(StoredUsers) = 3
  /\ Len(StoredReports) = 3
  /\ \E i \in 1..3 : StoredReports[i].status = "resolved"
  /\ getItem(localStorage, "currentUser").isAdmin

\* C13: a step of submitReport on a complete form appends exactly one report
\* at the end of the `reports` store, with status 'pending' and the userId of
\* the logged-in user, and the reports stored before keep their content and
\* their position.
C13_SubmitAppendsOne ==
  [][\A t \in Tabs :
       (submitReport(t) /\ FormComplete(home[t])) =>
         LET after == ParseListOrEmpty(localStorage', "reports")
             n == Len(StoredReports)
         IN /\ Len(after) = n + 1
            /\ SubSeq(after, 1, n) = StoredReports
            /\ after[n + 1].status = "pending"
            /\ after[n + 1].userId = currentUser[t].id]_vars

\* The registered citizen has submitted a report, which follows the two demo
\* reports; the first of them had been resolved by the admin.
C13_Witness ==
  /\ Len(StoredUsers) = 3
  /\ Len(StoredReports) = 3
  /\ Submitted(StoredReports[3])
  /\ StoredReports[3].userId = StoredUsers[3].id
  /\ StoredReports[3].status = "pending"
  /\ StoredReports[1].status = "resolved"

\* --------------------------------------------------------------- two admin tabs
\* The admin logs in in tab 1 and has the app open in tab 2 as well, where
\* the session is restored from the `currentUser` key; both tabs triage.
NextAdmins ==
  \/ \E t \in Tabs : AppMount(t)
  \/ handleLogin(1, "admin@demo.com", "admin123")
  \/ \E t \in Tabs : handleLogout(t)
  \/ \E t \in Tabs, i \in 1..MaxReports : ViewRecentReport(t, i)
  \/ \E t \in Tabs : MarkInProgress(t)
  \/ \E t \in Tabs : MarkResolved(t)

SpecAdmins == Init /\ [][NextAdmins]_vars

\* The fields of a report that triage writes.
Triage(r) ==
  [k \in {"status", "department", "comments", "assignedTo"} \cap DOMAIN r |-> r[k]]

\* C14: in every step, a stored report that is in-progress does not become
\* pending, and a stored report that is resolved keeps its status, department,
\* comments and assignedTo.
C14_LifecycleMovesForward ==
  [][LET after == ParseListOrEmpty(localStorage', "reports")
     IN \A i \in 1..Len(StoredReports) :
          i <= Len(after) =>
            /\ StoredReports[i].status = "in-progress" => after[i].status # "pending"
            /\ StoredReports[i].status = "resolved" =>
                 Triage(after[i]) = Triage(StoredReports[i])]_vars

\* C15: a step of updateReportStatus (through one of its buttons) changes
\* exactly one report, the selected one, on which it sets status, department,
\* comments and assignedTo (the name of the acting admin); every other report
\* of the list and of the store, the filters and the active tab stay as they
\* were.
C15_UpdateChangesOnlySelected ==
  [][\A t \in Tabs :
       (MarkInProgress(t) \/ MarkResolved(t)) =>
         LET id == admin[t].selectedReport.id
             before == admin[t].reports
             list == admin'[t].reports
             after == ParseListOrEmpty(localStorage', "reports")
         IN /\ Cardinality({i \in 1..Len(before) : before[i].id = id}) = 1
            /\ Len(list) = Len(before)
            /\ \A i \in 1..Len(before) :
                 IF before[i].id = id
                 THEN /\ list[i].status \in {"in-progress", "resolved"}
                      /\ list[i].department = "Public Works"
                      /\ list[i].assignedTo = currentUser[t].name
                      /\ "comments" \in DOMAIN list[i]
                 ELSE list[i] = before[i]
            /\ Len(after) = Len(StoredReports)
            /\ \A i \in 1..Len(StoredReports) :
                 StoredReports[i].id # id => after[i] = StoredReports[i]
            /\ admin'[t].filters = admin[t].filters
            /\ admin'[t].activeTab = admin[t].activeTab]_vars

\* C16: in every tab where AdminHome is mounted, the JSON content of its
\* in-memory `reports` list is the content of the `reports` storage key.
C16_ListEqualsStore ==
  \A t \in Tabs :
    AdminHomeShown(t) => JSONstringifyList(admin[t].reports) = StoredReports

\* ------------------------------------------------------------------ the dashboard
\* The form of a report ready to be submitted.
FilledForm ==
  [EmptyForm EXCEPT !.title = "text", !.description = "text",
                    !.address = "text", !.imageUrls = <<BlobUrl>>]

\* The reports the demo citizen submitted in earlier sessions, one a minute,
\* the first of them at `clock`.
RECURSIVE EarlierReports(_, _)
EarlierReports(clock, n) ==
  IF n = 0 THEN <<>>
  ELSE Append(EarlierReports(clock, n - 1),
              newReport(WithoutPassword(demoUsers[1]), FilledForm, NULL,
                        clock + (n - 1) * 60000))

\* localStorage persists from session to session: the app was first opened a
\* day ago (when the demo data was seeded), and the demo citizen has submitted
\* up to MaxEarlier reports since; nobody is logged in.
InitDashboard ==
  /\ \E n \in 0..MaxEarlier :
       localStorage =
         setItem(SeedDemoData([k \in {} |-> NULL], Clock0 - DayMs), "reports",
                 JSONstringifyList(demoReports(Clock0 - DayMs)
                                   \o EarlierReports(Clock0 - DayMs + 60000, n)))
  /\ now = Clock0
  /\ mounted = [t \in Tabs |-> FALSE]
  /\ authState = [t \in Tabs |-> "login"]
  /\ currentUser = [t \in Tabs |-> NULL]
  /\ admin = [t \in Tabs |-> AdminHomeInit]
  /\ home = [t \in Tabs |-> UserHomeInit]
  /\ timers = [t \in Tabs |-> 0]
  /\ gumPending = [t \in Tabs |-> NoRequests]
  /\ geoPending = [t \in Tabs |-> 0]
  /\ liveStreams = [t \in Tabs |-> {}]

\* The admin opens the app, logs in and works from the dashboard.
NextDashboard ==
  \/ AppMount(1)
  \/ handleLogin(1, "admin@demo.com", "admin123")
  \/ handleLogout(1)
  \/ \E tab \in {"dashboard", "reports"} : AdminSetActiveTab(1, tab)
  \/ \E i \in 1..5 : ViewRecentReport(1, i)
  \/ MarkInProgress(1)
  \/ MarkResolved(1)

SpecDashboard == InitDashboard /\ [][NextDashboard]_vars

\* C17: the reports of the "Recent Reports" card are the five most recently
\* submitted reports of the store (all of them when there are fewer): no
\* stored report that the card leaves out is more recent than one it lists.
C17_RecentAreLatest ==
  \A t \in Tabs :
    AdminHomeShown(t) =>
      LET recent == RecentReports(admin[t].reports)
          listed == {recent[k].id : k \in 1..Len(recent)}
      IN /\ Len(recent) = IF Len(StoredReports) < 5 THEN Len(StoredReports) ELSE 5
         /\ \A i \in 1..Len(StoredReports) :
              StoredReports[i].id \notin listed =>
                \A k \in 1..Len(recent) :
                  StoredReports[i].timestamp <= recent[k].timestamp

\* C18: handleLogin(email, password) returns true and moves authState to
\* 'authenticated' exactly when the `users` store has a user with that email
\* and that password; otherwise authState, currentUser and localStorage are
\* unchanged.
C18_LoginIffCredentialsMatch ==
  [][\A t \in Tabs, email \in Emails, password \in Passwords :
       handleLogin(t, email, password) =>
         LET known == \E i \in 1..Len(StoredUsers) :
                        /\ StoredUsers[i].email = email
                        /\ StoredUsers[i].password = password
         IN /\ handleLoginReturns(localStorage, email, password) <=> known
            /\ (authState'[t] = "authenticated") <=> known
            /\ ~known => /\ authState' = authState
                         /\ currentUser' = currentUser
                         /\ localStorage' = localStorage]_vars

\* The admin has logged in after a user was registered.
C18_Witness ==
  /\ authState[1] = "authenticated"
  /\ currentUser[1] # NULL
  /\ currentUser[1].email = "admin@demo.com"
  /\ Len(StoredUsers) = 3
  /\ getItem(localStorage, "currentUser") = currentUser[1]

\* C19: a step of handleLogout sets currentUser to null, removes the
\* `currentUser` key, sets authState to 'login', and leaves the `users` and
\* `reports` keys as they were.
C19_LogoutClearsSessionOnly ==
  [][\A t \in Tabs :
       handleLogout(t) =>
         /\ currentUser'[t] = NULL
         /\ ~hasItem(localStorage', "currentUser")
         /\ authState'[t] = "login"
         /\ \A key \in {"users", "reports"} :
              /\ hasItem(localStorage', key) <=> hasItem(localStorage, key)
              /\ getItem(localStorage', key) = getItem(localStorage, key)]_vars

\* The registered user has logged out: no session is left, and the stores
\* hold the registered user and a submitted report.
C19_Witness ==
  /\ mounted[1]
  /\ authState[1] = "login"
  /\ currentUser[1] = NULL
  /\ ~hasItem(localStorage, "currentUser")
  /\ Len(StoredUsers) = 3
  /\ Len(StoredReports) = 3

\* C20: when App mounts (the page is loaded or reloaded) and the `currentUser`
\* key is present, the tab is at 'authenticated' with currentUser equal to the
\* stored user and the user's home component mounted, no handleLogin being
\* called; when the key is absent the tab is at 'login' with no user.
C20_SessionSurvivesReload ==
  [][\A t \in Tabs :
       AppMount(t) =>
         IF hasItem(localStorage, "currentUser")
         THEN /\ authState'[t] = "authenticated"
              /\ currentUser'[t] = getItem(localStorage, "currentUser")
              /\ RenderedView(authState'[t], currentUser'[t]) \in {"AdminHome", "UserHome"}
              /\ hasItem(localStorage', "currentUser")
         ELSE /\ authState'[t] = "login"
              /\ currentUser'[t] = NULL]_vars

\* Tab 2, where nobody ever logged in, shows the admin's dashboard with the
\* reports loaded: the session that tab 1 stored was restored at mount.
C20_Witness ==
  /\ authState[2] = "authenticated"
  /\ currentUser[2] # NULL
  /\ currentUser[2].email = "admin@demo.com"
  /\ Len(admin[2].reports) = 2

\* C21: a step of App's mount effect writes the demo users only when the
\* `users` key is absent and the demo reports only when the `reports` key is
\* absent: a key that is present keeps its value, so registered users,
\* submitted reports and status updates survive every remount.
C21_SeedOnlyIfAbsent ==
  [][\A t \in Tabs :
       AppMount(t) =>
         /\ \A key \in {"users", "reports"} :
              hasItem(localStorage, key) =>
                /\ hasItem(localStorage', key)
                /\ getItem(localStorage', key) = getItem(localStorage, key)
         /\ ~hasItem(localStorage, "users") =>
              getItem(localStorage', "users") = JSONstringifyList(demoUsers)
         /\ ~hasItem(localStorage, "reports") =>
              getItem(localStorage', "reports") = JSONstringifyList(demoReports(now))]_vars

\* AdminHome has just been mounted (nothing selected, dashboard shown) over a
\* store that holds a registered user, a submitted report and a status update.
C21_Witness ==
  /\ AdminHomeShown(1)
  /\ admin[1].selectedReport = NULL
  /\ admin[1].activeTab = "dashboard"
  /\ Len(StoredUsers) = 3
  /\ Len(StoredReports) = 3
  /\ StoredReports[1].status = "resolved"
  /\ admin[1].reports = StoredReports

\* The ids of a list of reports, in order.
Ids(reps) == [i \in 1..Len(reps) |-> reps[i].id]

\* C22: in every tab where UserHome is mounted for user u, its My Reports list
\* holds the stored reports whose userId is u.id, all of them and no other,
\* in store order.
C22_MyReportsAreStoredOwn ==
  \A t \in Tabs :
    UserHomeShown(t) =>
      Ids(home[t].reports) =
        Ids(Filter(StoredReports,
                   {i \in 1..Len(StoredReports) :
                      StoredReports[i].userId = currentUser[t].id}))

\* C23: in every tab whose mount effect has run, authState is 'authenticated'
\* exactly when currentUser is not null, and exactly when the `currentUser`
\* key is present; the authenticated branch never renders with a null user.
C23_AuthStateUserAndKeyAgree ==
  \A t \in Tabs :
    /\ (authState[t] = "authenticated") <=> (currentUser[t] # NULL)
    /\ mounted[t] =>
         ((authState[t] = "authenticated") <=> hasItem(localStorage, "currentUser"))
    /\ RenderedView(authState[t], currentUser[t]) # "none"

\* ------------------------------------------------------------- two citizen tabs
\* The demo citizen has the app open in two tabs and submits a report from
\* each; the clock may or may not move between two calls of Date.now().
NextCitizens ==
  \/ Tick
  \/ \E t \in Tabs : AppMount(t)
  \/ \E t \in Tabs : handleLogin(t, "user@demo.com", "password123")
  \/ \E t \in Tabs, field \in {"title", "description", "address"} :
       setFormField(t, field, "text")
  \/ \E t \in Tabs : handleFileUpload(t, 1)
  \/ \E t \in Tabs : submitReportUpTo(t, MaxReportsShared)

SpecCitizens == Init /\ [][NextCitizens]_vars

\* C24: no two reports of the `reports` store have the same id.
C24_ReportIdsUnique ==
  \A i, j \in 1..Len(StoredReports) :
    StoredReports[i].id = StoredReports[j].id => i = j

\* C25: every report of the `reports` store has the userId of a user of the
\* `users` store.
C25_ReportsBelongToStoredUsers ==
  \A i \in 1..Len(StoredReports) :
    \E u \in 1..Len(StoredUsers) : StoredUsers[u].id = StoredReports[i].userId

\* The admin looks at a store whose third report was submitted by the
\* registered user, next to the demo citizen's two reports.
C25_Witness ==
  /\ AdminHomeShown(1)
  /\ Len(StoredUsers) = 3
  /\ Len(admin[1].reports) = 3
  /\ admin[1].reports[3].userId = StoredUsers[3].id
  /\ admin[1].reports[1].userId = StoredUsers[1].id

\* C26: every stored report that is in-progress or resolved has assignedTo and
\* department, and every stored report that is pending has neither.
C26_AssignmentFollowsStatus ==
  \A i \in 1..Len(StoredReports) :
    LET r == StoredReports[i]
    IN IF r.status = "pending"
       THEN {"assignedTo", "department"} \cap DOMAIN r = {}
       ELSE {"assignedTo", "department"} \subseteq DOMAIN r

\* The admin has taken the citizen's submitted report in progress; the first
\* demo report is still pending.
C26_Witness ==
  /\ Len(StoredReports) = 3
  /\ StoredReports[1].status = "pending"
  /\ Submitted(StoredReports[3])
  /\ StoredReports[3].status = "in-progress"
  /\ StoredReports[3].assignedTo = "Admin User"
  /\ StoredReports[3].department = "Public Works"

\* C27: in AdminHome a selected report is one of the reports of
\* filteredReports, with the same status and the same assignedTo.
C27_SelectedIsListed ==
  \A t \in Tabs :
    (AdminHomeShown(t) /\ admin[t].selectedReport # NULL) =>
      LET sel == admin[t].selectedReport
          shown == admin[t].filteredReports
      IN \E k \in 1..Len(shown) :
           /\ shown[k].id = sel.id
           /\ shown[k].status = sel.status
           /\ ("assignedTo" \in DOMAIN shown[k]) <=> ("assignedTo" \in DOMAIN sel)
           /\ "assignedTo" \in DOMAIN sel => shown[k].assignedTo = sel.assignedTo

\* C28: a handleLogin with the email and the password of the user that was
\* registered last succeeds and authenticates as that user (same id, email,
\* name and isAdmin).
C28_RegisterLoginRoundTrip ==
  [][\A t \in Tabs, email \in Emails, password \in Passwords :
       LET n == Len(StoredUsers)
       IN (/\ n > Len(demoUsers)
           /\ StoredUsers[n].email = email
           /\ StoredUsers[n].password = password
           /\ handleLogin(t, email, password)) =>
            /\ authState'[t] = "authenticated"
            /\ currentUser'[t] = WithoutPassword(StoredUsers[n])]_vars

\* C29: in every tab where the camera is not in use, or where UserHome is not
\* mounted, no stream that getUserMedia returned has live tracks.
C29_StreamsReleased ==
  \A t \in Tabs :
    (~UserHomeShown(t) \/ ~home[t].isUsingCamera) => liveStreams[t] = {}

\* C30: a displayed alert is cleared only by the timer that its own showAlert
\* call started.  Timers fire in the order they were started and the alert
\* displayed is that of the last call, so the timer that fires is the alert's
\* own exactly when no other timer is pending.
C30_AlertClearedByOwnTimer ==
  [][\A t \in Tabs :
       (TimerFire(t) /\ home[t].alert # NULL) => timers[t] = 1]_vars

====
